---- MODULE Spec2Model ----
(***************************************************************************)
(* Reminder engine of the calendar bot: the event store (bot/database.py)  *)
(* and the reminder dispatcher (bot/services/reminders.py).                *)
(*                                                                         *)
(* An instant is a whole number of ticks, TicksPerMinute ticks to the      *)
(* minute; an instant that is not a whole minute has a fractional part in  *)
(* its ISO text, as a datetime with microseconds has.                      *)
(*                                                                         *)
(* Spec, SpecService and FairSpec take one store operation as one step;    *)
(* SpecStore takes the callers of the store through the lock of            *)
(* Database.connect, one step per acquisition, section body and release.   *)
(* Tasks of the asyncio loop interleave at their awaits.                   *)
(***************************************************************************)
EXTENDS Integers, Sequences, FiniteSets, TLC

\* ------------------------------------------------------------------ bounds
MaxTime == 1        \* the clock runs over 0..MaxTime
TicksPerMinute == 2 \* resolution of the instants
NumUsers == 1       \* external identifiers 1..NumUsers
\* the store and the sweeps in depth, one restart of the service (Spec)
MaxEvents == 2      \* add_event calls that succeed
SweepTasks == 2     \* runner tasks start() may spawn
SweepCallers == 1   \* tasks that call start() and stop()
\* the service's start()/stop() in depth, over a small store (SpecService)
ServiceEvents == 1
MaxTasks == 3
NumCallers == 2
\* the callers of the store and its lock, two users (SpecStore)
NumProcs == 2       \* tasks that call the store
StoreUsers == 2     \* external identifiers 1..StoreUsers
StoreEvents == 2    \* add_event calls that succeed
\* one caller of the reads and of update_user, two users (SpecApi)
NumApiProcs == 1
TimedMaxTime == 3
ApiEvents == 2      \* add_event calls that succeed

TelegramIds == 1..NumUsers
Tasks == 1..MaxTasks
Callers == 1..NumCallers
Times == 0..MaxTime
Procs == 1..NumProcs
StoreTelegramIds == 1..StoreUsers
ApiProcs == 1..NumApiProcs

\* remind_before values add_event is called with: 0 ("no reminder") and one
\* minute, the smallest offset that sets remind_at before start_time
RemindOptions == {0, 1}
\* remind_before values the store is called with in SpecApi: add_event takes
\* any int
ApiRemindOptions == {-1, 0}
\* the `reminded` argument of list_events: None, True, False
NoFilter == "None"
ReminderFilters == {NoFilter, "True", "False"}
\* UTC offsets, in minutes, of the start_time add_event is called with
UtcOffsets == {0, 1}
\* values update_user is called with; NoTimezone and NoReminderDefault are
\* the parameters' default None
NoTimezone == "None"
NoReminderDefault == -1
TimezoneNames == {"Europe/Moscow"}
ReminderDefaults == {5}

\* `interval_seconds: int = 30` of ReminderService
interval_seconds == 30

\* interval_seconds in ticks
SleepTicks == (interval_seconds * TicksPerMinute) \div 60

\* `_task = None`
NoTask == 0

\* the lock of Database is not held
NoProc == 0
\* no call of the store is in progress
NoCall == [op |-> "none"]

VARIABLES
    clock,        \* datetime.now(timezone.utc), in ticks
    users,        \* table users: id -> row
    nextUserId,   \* AUTOINCREMENT of users.id
    events,       \* table events: id -> row
    nextEventId,  \* AUTOINCREMENT of events.id
    task,         \* ReminderService._task: a task handle or NoTask
    nextTask,     \* handle of the next task asyncio.create_task returns
    status,       \* per runner task: "unborn", "alive", "done"
    pc,           \* per runner task: the await its coroutine is (was) at
    cancelReq,    \* per runner task: Task.cancel() was called on it
    sweepNow,     \* per runner task: `now` of its current sweep
    batch,        \* per runner task: `events` of its current sweep
    idx,          \* per runner task: callbacks invoked in its current sweep
    outcome,      \* per runner task: how its latest sweep ended:
                  \* "returned", "raised", or "none" before the first end
    stopWait,     \* per caller: the task its stop() awaits, or NoTask
    delivered,    \* history: event ids the callback was invoked for
    markedIds,    \* history: event ids passed to an UPDATE that committed
    createdBy,    \* history: event id -> telegram_id its add_event was given
    ensured,      \* history: <<telegram_id, id>> of every return of ensure_user
    lock,         \* Database._lock: the task that holds it, or NoProc
    call,         \* per store caller: the operation it is in and its arguments
    spc,          \* per store caller: "idle", "wait" (for the lock), "in" (the
                  \* connect block, statements not yet run), "ran" (statements
                  \* run, connection not yet closed), "raised" (argument error),
                  \* "failed", "cancelled" (left the block by an exception),
                  \* "deliver", "send" (a sweep between its blocks)
    sres,         \* per store caller: what the statements of its block produced
    began,        \* per runner task: the clock when its latest sweep began
    ended,        \* per runner task: the clock when its latest sweep ended
    lasted        \* per runner task: how long its latest ended sweep took

vars == <<clock, users, nextUserId, events, nextEventId, task, nextTask,
          status, pc, cancelReq, sweepNow, batch, idx, outcome, stopWait,
          delivered, markedIds, createdBy, ensured, lock, call, spc, sres,
          began, ended, lasted>>

storeVars == <<users, nextUserId, events, nextEventId>>
runnerVars == <<status, pc, cancelReq, sweepNow, batch, idx, outcome>>
historyVars == <<delivered, markedIds, createdBy, ensured>>
lockVars == <<lock, call, spc, sres>>
timerVars == <<began, ended, lasted>>
serviceVars == <<clock, task, nextTask, runnerVars, stopWait, delivered, markedIds,
                 timerVars>>

\* ------------------------------------------------------------------ helpers
\* every order in which the rows of S can be returned
Perms(S) ==
    {s \in [1..Cardinality(S) -> S] : \A i, j \in DOMAIN s : i # j => s[i] # s[j]}

Ids(rows) == {rows[i].id : i \in DOMAIN rows}

\* ------------------------------------------------------------------ time
\* characters of the ISO texts, by their code: '+', '.', '0'
Plus == 43
Dot == 46
Zero == 48

\* the instants are shifted so that the text of the earliest one has no sign
IsoEpoch == 10 * TicksPerMinute

\* datetime.isoformat() of an instant in UTC: the whole minutes in two digits,
\* the fraction only if it is not zero, then the offset "+00:00"
IsoFormat(t) ==
    LET whole == (t + IsoEpoch) \div TicksPerMinute
        frac == (t + IsoEpoch) % TicksPerMinute
    IN  <<Zero + (whole \div 10), Zero + (whole % 10)>>
        \o (IF frac = 0 THEN <<>> ELSE <<Dot, Zero + frac>>)
        \o <<Plus>>

\* datetime.fromisoformat of a stored text, as an instant
FromIsoFormat(text) ==
    LET whole == (text[1] - Zero) * 10 + (text[2] - Zero)
        frac == IF text[3] = Dot THEN text[4] - Zero ELSE 0
    IN  whole * TicksPerMinute + frac - IsoEpoch

\* the wall time of an aware datetime taken for its UTC instant
AsTimezoneUtcKeepsWall(wall, utcoffset) == wall

\* start_time.astimezone(timezone.utc) of the aware datetime that reads wall
\* at utcoffset minutes east of UTC
AsTimezoneUtc(wall, utcoffset) == wall - utcoffset * TicksPerMinute

\* a < b where the query has a <= b
TextLt(a, b) ==
    LET n == IF Len(a) < Len(b) THEN Len(a) ELSE Len(b)
        diff == {i \in 1..n : a[i] # b[i]}
    IN  IF diff = {} THEN Len(a) < Len(b)
        ELSE LET first == CHOOSE i \in diff : \A j \in diff : i <= j
             IN  a[first] < b[first]

\* a <= b for two TEXT values of SQLite (BINARY collation: memcmp, then length)
TextLeq(a, b) ==
    LET n == IF Len(a) < Len(b) THEN Len(a) ELSE Len(b)
        diff == {i \in 1..n : a[i] # b[i]}
    IN  IF diff = {} THEN Len(a) <= Len(b)
        ELSE LET first == CHOOSE i \in diff : \A j \in diff : i <= j
             IN  a[first] < b[first]

\* ------------------------------------------------------------------ store
\* ids of the rows SELECT ... FROM users WHERE telegram_id = ? finds
UserIdsOf(tg) == {u \in DOMAIN users : users[u].telegram_id = tg}

\* INSERT INTO users without OR IGNORE and without the UNIQUE constraint
EnsuredUsersAlwaysInserts(tg) ==
    [u \in DOMAIN users \cup {nextUserId} |->
        IF u = nextUserId
        THEN [telegram_id |-> tg, timezone |-> "UTC", reminder_default |-> 15]
        ELSE users[u]]

\* INSERT OR IGNORE INTO users (telegram_id, created_at): telegram_id is UNIQUE
EnsuredUsers(tg) ==
    IF UserIdsOf(tg) # {} THEN users
    ELSE [u \in DOMAIN users \cup {nextUserId} |->
            IF u = nextUserId
            THEN [telegram_id |-> tg, timezone |-> "UTC", reminder_default |-> 15]
            ELSE users[u]]

\* users.id is AUTOINCREMENT: a row that was inserted took the next id
EnsuredNextUserId(tg) == IF EnsuredUsers(tg) = users THEN nextUserId ELSE nextUserId + 1

\* SELECT id FROM users WHERE telegram_id = ?, fetchone(), after the insert
EnsuredUserId(tg) ==
    CHOOSE u \in DOMAIN EnsuredUsers(tg) : EnsuredUsers(tg)[u].telegram_id = tg

\* the row INSERT INTO events writes
NewEventRow(user_id, start_time, remind_before) ==
    [user_id |-> user_id, start_time |-> start_time,
     remind_before |-> remind_before,
     remind_at |-> start_time - remind_before * TicksPerMinute,
     reminded |-> FALSE]

\* the id of a table without AUTOINCREMENT: one more than the largest id
\* stored now
NewEventIdOfRowid ==
    IF DOMAIN events = {} THEN 1
    ELSE 1 + CHOOSE id \in DOMAIN events : \A other \in DOMAIN events : other <= id

\* `id INTEGER PRIMARY KEY AUTOINCREMENT`: one more than the largest id the
\* table ever held; cursor.lastrowid of the INSERT
NewEventId == nextEventId

\* INSERT INTO events
InsertedEvents(row) ==
    [id \in DOMAIN events \cup {NewEventId} |->
        IF id = NewEventId THEN row ELSE events[id]]

\* telegram_id of the user row with internal id uid (the JOIN of the queries)
TelegramIdOf(uid) == users[uid].telegram_id

\* _row_to_event of a joined row
RowToEvent(id) ==
    [id |-> id, user_id |-> events[id].user_id,
     start_time |-> FromIsoFormat(IsoFormat(events[id].start_time)),
     remind_before |-> events[id].remind_before,
     remind_at |-> FromIsoFormat(IsoFormat(events[id].remind_at)),
     reminded |-> events[id].reminded,
     telegram_id |-> TelegramIdOf(events[id].user_id)]

\* JOIN users u ON u.id = e.user_id WHERE e.reminded = 0 AND e.remind_at <= ?
\* (remind_at is TEXT, the parameter is now.astimezone(utc).isoformat())
DueIds(now) ==
    {id \in DOMAIN events :
        /\ events[id].user_id \in DOMAIN users
        /\ ~events[id].reminded
        /\ TextLeq(IsoFormat(events[id].remind_at), IsoFormat(now))}

\* the lists get_due_reminders may return: the query has no ORDER BY
DueReminders(now) ==
    {[i \in DOMAIN p |-> RowToEvent(p[i])] : p \in Perms(DueIds(now))}

\* mark_reminded without its commit: the UPDATE is rolled back at close
MarkRemindedUncommitted(ids) == events

\* mark_reminded writing `reminded = (id IN (...))` to every row
MarkRemindedResetsOthers(ids) ==
    [id \in DOMAIN events |-> [events[id] EXCEPT !.reminded = (id \in ids)]]

\* mark_reminded that also moves remind_at to the start of the event
MarkRemindedMovesRemindAt(ids) ==
    [id \in DOMAIN events |->
        IF id \in ids
        THEN [events[id] EXCEPT !.reminded = TRUE, !.remind_at = events[id].start_time]
        ELSE events[id]]

\* mark_reminded as an upsert: an id that matches no row gets a row
MarkRemindedUpserts(ids) ==
    [id \in DOMAIN events \cup ids |->
        IF id \in DOMAIN events
        THEN (IF id \in ids THEN [events[id] EXCEPT !.reminded = TRUE] ELSE events[id])
        ELSE [NewEventRow(0, 0, 0) EXCEPT !.reminded = TRUE]]

\* UPDATE events SET reminded = 1 WHERE id IN (...)
MarkReminded(ids) ==
    [id \in DOMAIN events |->
        IF id \in ids THEN [events[id] EXCEPT !.reminded = TRUE] ELSE events[id]]

\* get_event without `u.telegram_id = ?`
GetEventUnscoped(tg, event_id) ==
    IF event_id \in DOMAIN events THEN <<RowToEvent(event_id)>> ELSE <<>>

\* SELECT e.*, u.telegram_id ... WHERE u.telegram_id = ? AND e.id = ?,
\* fetchone(): the event in a list, or the empty list for None
GetEvent(tg, event_id) ==
    IF /\ event_id \in DOMAIN events
       /\ events[event_id].user_id \in UserIdsOf(tg)
    THEN <<RowToEvent(event_id)>>
    ELSE <<>>

\* ids of the rows list_events selects: `u.telegram_id = ?`, and
\* `e.reminded = ?` if reminded is not None
ListedIds(tg, reminded) ==
    {id \in DOMAIN events :
        /\ events[id].user_id \in UserIdsOf(tg)
        /\ reminded # NoFilter => (events[id].reminded <=> reminded = "True")}

\* the ids in p are in ORDER BY e.start_time ASC (start_time is TEXT)
ByStartTime(p) ==
    \A i, j \in DOMAIN p :
        i < j => TextLeq(IsoFormat(events[p[i]].start_time),
                         IsoFormat(events[p[j]].start_time))

\* list_events without its ORDER BY
ListEventsUnordered(tg, reminded) ==
    {[i \in DOMAIN p |-> RowToEvent(p[i])] : p \in Perms(ListedIds(tg, reminded))}

\* the lists list_events may return (rows of equal start_time in any order)
ListEvents(tg, reminded) ==
    {[i \in DOMAIN p |-> RowToEvent(p[i])] :
        p \in {q \in Perms(ListedIds(tg, reminded)) : ByStartTime(q)}}

\* get_next_event without `e.reminded = 0`
GetNextEventIgnoresReminded(tg, now) ==
    LET found == {id \in DOMAIN events :
                    /\ events[id].user_id \in UserIdsOf(tg)
                    /\ TextLeq(IsoFormat(now), IsoFormat(events[id].start_time))}
    IN  IF found = {} THEN {<<>>}
        ELSE {<<RowToEvent(id)>> :
                id \in {f \in found : \A g \in found : ByStartTime(<<f, g>>)}}

\* the results get_next_event may return at now: WHERE u.telegram_id = ? AND
\* e.reminded = 0 AND e.start_time >= ? ORDER BY e.start_time ASC LIMIT 1,
\* the event in a list, or the empty list for None
GetNextEvent(tg, now) ==
    LET found == {id \in DOMAIN events :
                    /\ events[id].user_id \in UserIdsOf(tg)
                    /\ ~events[id].reminded
                    /\ TextLeq(IsoFormat(now), IsoFormat(events[id].start_time))}
    IN  IF found = {} THEN {<<>>}
        ELSE {<<RowToEvent(id)>> :
                id \in {f \in found : \A g \in found : ByStartTime(<<f, g>>)}}

\* SELECT * FROM users WHERE telegram_id = ?, fetchone(): the row in a list,
\* or the empty list for None
GetUser(tg) ==
    IF UserIdsOf(tg) = {} THEN <<>>
    ELSE <<users[CHOOSE u \in UserIdsOf(tg) : TRUE]>>

\* delete_event without `u.telegram_id = ?`
DeletedEventsUnscoped(tg, event_id) ==
    [id \in DOMAIN events \ {event_id} |-> events[id]]

\* DELETE FROM events WHERE id = (SELECT ... WHERE u.telegram_id = ? AND e.id = ?)
DeletedEvents(tg, event_id) ==
    IF /\ event_id \in DOMAIN events
       /\ events[event_id].user_id \in UserIdsOf(tg)
    THEN [id \in DOMAIN events \ {event_id} |-> events[id]]
    ELSE events

\* update_user writing the column defaults into the fields not supplied
UpdatedUsersOverwrites(tg, timezone_name, reminder_default) ==
    [u \in DOMAIN users |->
        IF users[u].telegram_id # tg THEN users[u]
        ELSE [users[u] EXCEPT
                !.timezone =
                    IF timezone_name = NoTimezone THEN "UTC" ELSE timezone_name,
                !.reminder_default =
                    IF reminder_default = NoReminderDefault THEN 15
                    ELSE reminder_default]]

\* update_user inserting the row its UPDATE did not find
UpdatedUsersUpserts(tg, timezone_name, reminder_default) ==
    [u \in DOMAIN users \cup (IF UserIdsOf(tg) = {} THEN {nextUserId} ELSE {}) |->
        IF u \notin DOMAIN users
        THEN [telegram_id |-> tg,
              timezone |-> IF timezone_name = NoTimezone THEN "UTC" ELSE timezone_name,
              reminder_default |->
                  IF reminder_default = NoReminderDefault THEN 15 ELSE reminder_default]
        ELSE IF users[u].telegram_id # tg THEN users[u]
        ELSE [users[u] EXCEPT
                !.timezone =
                    IF timezone_name = NoTimezone THEN @ ELSE timezone_name,
                !.reminder_default =
                    IF reminder_default = NoReminderDefault THEN @
                    ELSE reminder_default]]

\* UPDATE users SET ... WHERE telegram_id = ?
UpdatedUsers(tg, timezone_name, reminder_default) ==
    [u \in DOMAIN users |->
        IF users[u].telegram_id # tg THEN users[u]
        ELSE [users[u] EXCEPT
                !.timezone =
                    IF timezone_name = NoTimezone THEN @ ELSE timezone_name,
                !.reminder_default =
                    IF reminder_default = NoReminderDefault THEN @
                    ELSE reminder_default]]

\* ------------------------------------------------------------------ Init
Init ==
    /\ clock = 0
    /\ users = <<>>
    /\ nextUserId = 1
    /\ events = <<>>
    /\ nextEventId = 1
    /\ task = NoTask
    /\ nextTask = 1
    /\ status = [t \in Tasks |-> "unborn"]
    /\ pc = [t \in Tasks |-> "new"]
    /\ cancelReq = [t \in Tasks |-> FALSE]
    /\ sweepNow = [t \in Tasks |-> 0]
    /\ batch = [t \in Tasks |-> <<>>]
    /\ idx = [t \in Tasks |-> 0]
    /\ outcome = [t \in Tasks |-> "none"]
    /\ stopWait = [c \in Callers |-> NoTask]
    /\ delivered = {}
    /\ markedIds = {}
    /\ createdBy = <<>>
    /\ ensured = {}
    /\ lock = NoProc
    /\ call = [p \in Procs |-> NoCall]
    /\ spc = [p \in Procs |-> "idle"]
    /\ sres = [p \in Procs |-> <<>>]
    /\ began = [t \in Tasks |-> 0]
    /\ ended = [t \in Tasks |-> 0]
    /\ lasted = [t \in Tasks |-> 0]

\* ------------------------------------------------------------------ clock
Tick ==
    /\ clock < MaxTime
    /\ clock' = clock + 1
    /\ UNCHANGED <<storeVars, task, nextTask, runnerVars, stopWait, historyVars>>


\* ------------------------------------------------------------------ handlers
\* Database.ensure_user, called by the /start handler
EnsureUser(tg) ==
    /\ users' = EnsuredUsers(tg)
    /\ nextUserId' = EnsuredNextUserId(tg)
    /\ ensured' = ensured \cup {<<tg, EnsuredUserId(tg)>>}
    /\ UNCHANGED <<clock, events, nextEventId, task, nextTask, runnerVars,
                   stopWait, delivered, markedIds, createdBy>>

\* Database.update_user
UpdateUser(tg, timezone_name, reminder_default) ==
    /\ users' = UpdatedUsers(tg, timezone_name, reminder_default)
    /\ UNCHANGED <<clock, nextUserId, events, nextEventId, task, nextTask,
                   runnerVars, stopWait, historyVars>>

\* Database.add_event with a start_time in UTC; aware is
\* `start_time.tzinfo is not None`
AddEvent(tg, start_time, remind_before, aware, maxEvents) ==
    /\ nextEventId <= maxEvents
    /\ IF ~aware
       THEN UNCHANGED storeVars          \* ValueError before any store access
       ELSE /\ users' = EnsuredUsers(tg)
            /\ nextUserId' = EnsuredNextUserId(tg)
            /\ events' = InsertedEvents(
                            NewEventRow(EnsuredUserId(tg),
                                        AsTimezoneUtc(start_time, 0), remind_before))
            /\ nextEventId' = nextEventId + 1
    /\ createdBy' = IF aware THEN createdBy @@ (NewEventId :> tg) ELSE createdBy
    /\ ensured' = IF aware THEN ensured \cup {<<tg, EnsuredUserId(tg)>>} ELSE ensured
    /\ UNCHANGED <<clock, task, nextTask, runnerVars, stopWait, delivered,
                   markedIds>>

\* Database.delete_event
DeleteEvent(tg, event_id) ==
    /\ events' = DeletedEvents(tg, event_id)
    /\ UNCHANGED <<clock, users, nextUserId, nextEventId, task, nextTask,
                   runnerVars, stopWait, historyVars>>

\* ------------------------------------------------------------------ runner
\* a step of runner task t that is not the delivery of a cancellation
Runs(t) == status[t] = "alive" /\ ~cancelReq[t]

\* _runner without its try/except
RunnerCatchesNothing == FALSE

\* `except Exception` of _runner
RunnerCatches == TRUE

\* dispatch_due is over: its locals are gone, _runner goes to sleep
SweepEnds(t, how) ==
    /\ pc' = [pc EXCEPT ![t] = "sleep"]
    /\ sweepNow' = [sweepNow EXCEPT ![t] = 0]
    /\ batch' = [batch EXCEPT ![t] = <<>>]
    /\ idx' = [idx EXCEPT ![t] = 0]
    /\ outcome' = [outcome EXCEPT ![t] = how]
    /\ UNCHANGED status

\* the coroutine of task t is over: its locals are gone
TaskEnds(t) ==
    /\ status' = [status EXCEPT ![t] = "done"]
    /\ sweepNow' = [sweepNow EXCEPT ![t] = 0]
    /\ batch' = [batch EXCEPT ![t] = <<>>]
    /\ idx' = [idx EXCEPT ![t] = 0]
    /\ outcome' = [outcome EXCEPT ![t] = "none"]
    /\ UNCHANGED pc

\* an exception leaves dispatch_due inside the try of _runner
SweepRaised(t) == IF RunnerCatches THEN SweepEnds(t, "raised") ELSE TaskEnds(t)

\* dispatch_due up to its first await: `now = datetime.now(timezone.utc)`
BeginSweep(t) ==
    /\ pc' = [pc EXCEPT ![t] = "fetch"]
    /\ sweepNow' = [sweepNow EXCEPT ![t] = clock]
    /\ UNCHANGED <<clock, storeVars, task, nextTask, status, cancelReq, batch,
                   idx, outcome, stopWait, historyVars>>

\* the first step of the task create_task made
RunnerEnter(t) ==
    /\ Runs(t)
    /\ pc[t] = "new"
    /\ BeginSweep(t)

\* asyncio.sleep(interval_seconds) is over: the next turn of `while True`
SleepElapsed(t) ==
    /\ Runs(t)
    /\ pc[t] = "sleep"
    /\ BeginSweep(t)

\* `events = await self.database.get_due_reminders(now)`; `if not events: return`
GetDueReminders(t) ==
    /\ Runs(t)
    /\ pc[t] = "fetch"
    /\ \E rows \in DueReminders(sweepNow[t]) :
          IF rows = <<>>
          THEN SweepEnds(t, "returned")
          ELSE /\ batch' = [batch EXCEPT ![t] = rows]
               /\ pc' = [pc EXCEPT ![t] = "deliver"]
               /\ sweepNow' = [sweepNow EXCEPT ![t] = 0]
               /\ UNCHANGED <<status, idx, outcome>>
    /\ UNCHANGED <<clock, storeVars, task, nextTask, cancelReq, stopWait,
                   historyVars>>

\* get_due_reminders raises a storage error
GetDueRemindersFails(t) ==
    /\ Runs(t)
    /\ pc[t] = "fetch"
    /\ SweepRaised(t)
    /\ UNCHANGED <<clock, storeVars, task, nextTask, cancelReq, stopWait,
                   historyVars>>

\* the pc after the callback returned for the next event of the list
AfterCallback(t) == IF idx[t] + 1 = Len(batch[t]) THEN "mark" ELSE "deliver"

\* `await self.callback(event)` for the next event of the list; the callback
\* returns (ok) or raises
Callback(t, ok) ==
    /\ Runs(t)
    /\ pc[t] = "deliver"
    /\ delivered' = delivered \cup {batch[t][idx[t] + 1].id}
    /\ IF ok
       THEN /\ pc' = [pc EXCEPT ![t] = AfterCallback(t)]
            /\ idx' = [idx EXCEPT ![t] = @ + 1]
            /\ UNCHANGED <<status, sweepNow, batch, outcome>>
       ELSE SweepRaised(t)
    /\ UNCHANGED <<clock, storeVars, task, nextTask, cancelReq, stopWait,
                   markedIds, createdBy, ensured>>

\* the events whose delivery raises on every attempt (a send_message error
\* that send_reminder does not catch)
FailingIds == {1}

\* `await self.callback(event)` with a callback that terminates every time:
\* it raises for the events of FailingIds and returns for any other event
Deliver(t) ==
    /\ pc[t] = "deliver"
    /\ Callback(t, batch[t][idx[t] + 1].id \notin FailingIds)

\* a sweep that marks whatever is due when it marks
EventIdsDueNow(t) == DueIds(clock)

\* `event.id for event in events`: the ids of the list the sweep fetched
EventIds(t) == Ids(batch[t])

\* `await self.database.mark_reminded(event.id for event in events)`
MarkRemindedCall(t) ==
    /\ Runs(t)
    /\ pc[t] = "mark"
    /\ events' = MarkReminded(EventIds(t))
    /\ markedIds' = markedIds \cup EventIds(t)
    /\ SweepEnds(t, "returned")
    /\ UNCHANGED <<clock, users, nextUserId, nextEventId, task, nextTask,
                   cancelReq, stopWait, delivered, createdBy, ensured>>

\* mark_reminded raises a storage error: nothing is committed
MarkRemindedFails(t) ==
    /\ Runs(t)
    /\ pc[t] = "mark"
    /\ SweepRaised(t)
    /\ UNCHANGED <<clock, storeVars, task, nextTask, cancelReq, stopWait,
                   historyVars>>

\* CancelledError is thrown into task t at the await it is suspended at (pc
\* stays there); `except Exception` does not catch it and the task ends
Cancelled(t) ==
    /\ status[t] = "alive"
    /\ cancelReq[t]
    /\ TaskEnds(t)
    /\ UNCHANGED <<clock, storeVars, task, nextTask, cancelReq, stopWait,
                   historyVars>>

\* ------------------------------------------------------------------ service
\* `self._task is None or self._task.done()`
NotRunning == task = NoTask \/ status[task] = "done"

\* ReminderService.start, called by a task that is not suspended in stop()
Start(c, maxTasks) ==
    /\ stopWait[c] = NoTask
    /\ IF NotRunning
       THEN /\ nextTask <= maxTasks
            /\ task' = nextTask
            /\ nextTask' = nextTask + 1
            /\ status' = [status EXCEPT ![nextTask] = "alive"]
       ELSE UNCHANGED <<task, nextTask, status>>
    /\ UNCHANGED <<clock, storeVars, pc, cancelReq, sweepNow, batch, idx,
                   outcome, stopWait, historyVars>>

\* ReminderService.stop up to `await self._task`
Stop(c) ==
    /\ stopWait[c] = NoTask
    /\ IF task = NoTask
       THEN UNCHANGED <<task, cancelReq, stopWait>>
       ELSE IF status[task] = "done"
            THEN \* cancel() of a finished task does nothing and the await
                 \* does not suspend
                 /\ task' = NoTask
                 /\ UNCHANGED <<cancelReq, stopWait>>
            ELSE /\ cancelReq' = [cancelReq EXCEPT ![task] = TRUE]
                 /\ stopWait' = [stopWait EXCEPT ![c] = task]
                 /\ UNCHANGED task
    /\ UNCHANGED <<clock, storeVars, nextTask, status, pc, sweepNow, batch,
                   idx, outcome, historyVars>>

\* ReminderService.stop from the end of `await self._task`: the awaited task
\* has ended, CancelledError is swallowed, `self._task = None`
StopResume(c) ==
    /\ stopWait[c] # NoTask
    /\ status[stopWait[c]] = "done"
    /\ task' = NoTask
    /\ stopWait' = [stopWait EXCEPT ![c] = NoTask]
    /\ UNCHANGED <<clock, storeVars, nextTask, runnerVars, historyVars>>

\* ------------------------------------------------------------------ lock
\* Task p calls an operation of Database.  The operation checks its
\* arguments, then runs each of its `async with self.connect()` blocks:
\* acquire the lock and open the connection, run the statements, close the
\* connection and release the lock.

\* a lock that is never seen held
LockAlwaysFree == TRUE

\* `async with self._lock` does not wait
LockFree == lock = NoProc

\* no argument is ever refused
RejectedNever(c) == FALSE

\* `if start_time.tzinfo is None: raise ValueError`, `if now.tzinfo is None:
\* raise ValueError`: the argument check at the head of an operation
Rejected(c) == c.op \in {"add_event", "get_due_reminders"} /\ ~c.aware

\* `if not fields: return` of update_user: no field is supplied
NoFields(c) ==
    /\ c.op = "update_user"
    /\ c.timezone_name = NoTimezone
    /\ c.reminder_default = NoReminderDefault

\* add_event calls in progress that have yet to insert their event
AddsInFlight == {p \in Procs : call[p].op \in {"add_event", "add_event.insert"}}

\* idle p enters operation c: an argument error, a return without store
\* access, or on to the first connect()
Calls(p, c) ==
    /\ call' = [call EXCEPT ![p] = c]
    /\ spc' = [spc EXCEPT ![p] = IF Rejected(c) THEN "raised"
                                 ELSE IF NoFields(c) THEN "returned"
                                 ELSE "wait"]
    /\ UNCHANGED <<storeVars, serviceVars, createdBy, ensured, lock, sres>>

CallEnsureUser(p, tg) ==
    /\ spc[p] = "idle"
    /\ Calls(p, [op |-> "ensure_user", telegram_id |-> tg])

\* add_event starts with the check of start_time, then calls ensure_user
CallAddEvent(p, tg, start_time, utcoffset, remind_before, aware) ==
    /\ spc[p] = "idle"
    /\ nextEventId + Cardinality(AddsInFlight) <= StoreEvents
    /\ Calls(p, [op |-> "add_event", telegram_id |-> tg,
                 start_time |-> start_time, utcoffset |-> utcoffset,
                 remind_before |-> remind_before, aware |-> aware])

CallGetEvent(p, tg, event_id) ==
    /\ spc[p] = "idle"
    /\ Calls(p, [op |-> "get_event", telegram_id |-> tg, event_id |-> event_id])

CallDeleteEvent(p, tg, event_id) ==
    /\ spc[p] = "idle"
    /\ Calls(p, [op |-> "delete_event", telegram_id |-> tg, event_id |-> event_id])

CallGetDueReminders(p, now, aware) ==
    /\ spc[p] = "idle"
    /\ Calls(p, [op |-> "get_due_reminders", now |-> now, aware |-> aware])

\* mark_reminded with a non-empty list of ids (with an empty list it returns
\* at once)
CallMarkReminded(p, ids) ==
    /\ spc[p] = "idle"
    /\ ids # {}
    /\ Calls(p, [op |-> "mark_reminded", ids |-> ids])

CallListEvents(p, tg, reminded) ==
    /\ spc[p] = "idle"
    /\ Calls(p, [op |-> "list_events", telegram_id |-> tg, reminded |-> reminded])

CallGetNextEvent(p, tg) ==
    /\ spc[p] = "idle"
    /\ Calls(p, [op |-> "get_next_event", telegram_id |-> tg])

CallUpdateUser(p, tg, timezone_name, reminder_default) ==
    /\ spc[p] = "idle"
    /\ Calls(p, [op |-> "update_user", telegram_id |-> tg,
                 timezone_name |-> timezone_name,
                 reminder_default |-> reminder_default])

\* add_event as SpecApi calls it: start_time in UTC, any int as remind_before
CallAddEventApi(p, tg, start_time, remind_before) ==
    /\ spc[p] = "idle"
    /\ nextEventId + Cardinality(AddsInFlight) <= ApiEvents
    /\ Calls(p, [op |-> "add_event", telegram_id |-> tg,
                 start_time |-> start_time, utcoffset |-> 0,
                 remind_before |-> remind_before, aware |-> TRUE])

\* update_user, or send_reminder, returns to its caller without having
\* opened a connect block
Returns(p) ==
    /\ spc[p] = "returned"
    /\ spc' = [spc EXCEPT ![p] = "idle"]
    /\ call' = [call EXCEPT ![p] = NoCall]
    /\ UNCHANGED <<storeVars, serviceVars, createdBy, ensured, lock, sres>>

\* the ValueError, or the exception of send_message, reaches the caller of
\* p's operation
Raises(p) ==
    /\ spc[p] = "raised"
    /\ spc' = [spc EXCEPT ![p] = "idle"]
    /\ call' = [call EXCEPT ![p] = NoCall]
    /\ UNCHANGED <<storeVars, serviceVars, createdBy, ensured, lock, sres>>

\* connect(): `async with self._lock`, aiosqlite.connect, PRAGMA, yield
Acquire(p) ==
    /\ spc[p] = "wait"
    /\ LockFree
    /\ lock' = p
    /\ spc' = [spc EXCEPT ![p] = "in"]
    /\ UNCHANGED <<storeVars, serviceVars, createdBy, ensured, call, sres>>

\* p is in a connect block of operation op and has yet to run its statements
InBlock(p, op) == spc[p] = "in" /\ call[p].op = op

\* p has run the statements of its block, which produced res
Ran(p, res) ==
    /\ spc' = [spc EXCEPT ![p] = "ran"]
    /\ sres' = [sres EXCEPT ![p] = res]
    /\ UNCHANGED <<serviceVars, lock, call>>

\* the block of ensure_user, called directly or by add_event
ExecEnsureUser(p) ==
    /\ InBlock(p, "ensure_user") \/ InBlock(p, "add_event")
    /\ users' = EnsuredUsers(call[p].telegram_id)
    /\ nextUserId' = EnsuredNextUserId(call[p].telegram_id)
    /\ ensured' = ensured \cup
                    {<<call[p].telegram_id, EnsuredUserId(call[p].telegram_id)>>}
    /\ Ran(p, <<EnsuredUserId(call[p].telegram_id)>>)
    /\ UNCHANGED <<events, nextEventId, createdBy>>

\* the block of add_event: INSERT INTO events, commit, lastrowid
ExecInsertEvent(p) ==
    /\ InBlock(p, "add_event.insert")
    /\ events' = InsertedEvents(
                    NewEventRow(call[p].user_id,
                                AsTimezoneUtc(call[p].start_time, call[p].utcoffset),
                                call[p].remind_before))
    /\ nextEventId' = nextEventId + 1
    /\ createdBy' = createdBy @@ (NewEventId :> call[p].telegram_id)
    /\ Ran(p, <<NewEventId>>)
    /\ UNCHANGED <<users, nextUserId, ensured>>

ExecGetEvent(p) ==
    /\ InBlock(p, "get_event")
    /\ Ran(p, GetEvent(call[p].telegram_id, call[p].event_id))
    /\ UNCHANGED <<storeVars, createdBy, ensured>>

ExecDeleteEvent(p) ==
    /\ InBlock(p, "delete_event")
    /\ events' = DeletedEvents(call[p].telegram_id, call[p].event_id)
    /\ Ran(p, <<>>)
    /\ UNCHANGED <<users, nextUserId, nextEventId, createdBy, ensured>>

ExecGetDueReminders(p) ==
    /\ InBlock(p, "get_due_reminders")
    /\ \E rows \in DueReminders(call[p].now) : Ran(p, rows)
    /\ UNCHANGED <<storeVars, createdBy, ensured>>

ExecMarkReminded(p) ==
    /\ InBlock(p, "mark_reminded")
    /\ events' = MarkReminded(call[p].ids)
    /\ Ran(p, <<>>)
    /\ UNCHANGED <<users, nextUserId, nextEventId, createdBy, ensured>>

ExecListEvents(p) ==
    /\ InBlock(p, "list_events")
    /\ \E rows \in ListEvents(call[p].telegram_id, call[p].reminded) : Ran(p, rows)
    /\ UNCHANGED <<storeVars, createdBy, ensured>>

\* now_iso = datetime.now(timezone.utc).isoformat() is taken inside the block
ExecGetNextEvent(p) ==
    /\ InBlock(p, "get_next_event")
    /\ \E res \in GetNextEvent(call[p].telegram_id, clock) : Ran(p, res)
    /\ UNCHANGED <<storeVars, createdBy, ensured>>

ExecUpdateUser(p) ==
    /\ InBlock(p, "update_user")
    /\ users' = UpdatedUsers(call[p].telegram_id, call[p].timezone_name,
                             call[p].reminder_default)
    /\ Ran(p, <<>>)
    /\ UNCHANGED <<nextUserId, events, nextEventId, createdBy, ensured>>

\* the call of p after ensure_user returned user_id to add_event
InsertCall(c, user_id) ==
    [op |-> "add_event.insert", telegram_id |-> c.telegram_id,
     start_time |-> c.start_time, utcoffset |-> c.utcoffset,
     remind_before |-> c.remind_before, user_id |-> user_id]

\* a lock that stays with its holder when the block is left
HeldAfterBlock == lock

\* the lock after `async with self._lock` is left by the end of the block
Released == NoProc

\* a lock that stays with its holder when an exception leaves the block
HeldAfterError == lock

\* the lock after `async with self._lock` is left by an exception
ReleasedOnError == NoProc

\* where a task goes on after a block of call c that produced res: add_event
\* to its own block, dispatch_due to its first callback unless the list is
\* empty, send_reminder to bot.send_message, any other operation returns
AfterBlock(c, res) ==
    IF c.op = "add_event"
    THEN [call |-> InsertCall(c, res[1]), spc |-> "wait"]
    ELSE IF c.op = "dispatch_due" /\ res # <<>>
    THEN [call |-> [op |-> "callback", batch |-> res, idx |-> 1,
                    results |-> <<>>],
          spc |-> "deliver"]
    ELSE IF c.op = "callback.get_user"
    THEN [call |-> [op |-> "callback", batch |-> c.batch, idx |-> c.idx,
                    results |-> c.results],
          spc |-> "send"]
    ELSE [call |-> NoCall, spc |-> "idle"]

\* the end of a connect block: `finally: await db.close()`, the lock is
\* released
Release(p) ==
    /\ spc[p] = "ran"
    /\ lock' = Released
    /\ sres' = [sres EXCEPT ![p] = <<>>]
    /\ call' = [call EXCEPT ![p] = AfterBlock(call[p], sres[p]).call]
    /\ spc' = [spc EXCEPT ![p] = AfterBlock(call[p], sres[p]).spc]
    /\ UNCHANGED <<storeVars, serviceVars, createdBy, ensured>>

\* ------------------------------------------------------------------ sweep
\* A sweep as a caller of the store: dispatch_due fetches in one connect
\* block, awaits send_reminder for each event (get_user in a block of its
\* own, then bot.send_message), and marks in a last block.

\* dispatch_due with now = datetime.now(timezone.utc)
CallDispatchDue(p, now) ==
    /\ spc[p] = "idle"
    /\ Calls(p, [op |-> "dispatch_due", now |-> now])

\* `events = await self.database.get_due_reminders(now)`
ExecSweepFetch(p) ==
    /\ InBlock(p, "dispatch_due")
    /\ \E rows \in DueReminders(call[p].now) : Ran(p, rows)
    /\ UNCHANGED <<storeVars, createdBy, ensured>>

\* `await self.callback(event)`: send_reminder calls database.get_user
CallbackGetUser(p) ==
    /\ spc[p] = "deliver"
    /\ call' = [call EXCEPT ![p] =
                  [op |-> "callback.get_user",
                   telegram_id |-> call[p].batch[call[p].idx].telegram_id,
                   batch |-> call[p].batch, idx |-> call[p].idx,
                   results |-> call[p].results]]
    /\ spc' = [spc EXCEPT ![p] = "wait"]
    /\ UNCHANGED <<storeVars, serviceVars, createdBy, ensured, lock, sres>>

ExecGetUser(p) ==
    /\ InBlock(p, "callback.get_user")
    /\ Ran(p, GetUser(call[p].telegram_id))
    /\ UNCHANGED <<storeVars, createdBy, ensured>>

\* `telegram_id = None` of an Event
NoTelegramId == 0

\* what `await bot.send_message(...)` does: it returns, or it raises an
\* exception of one of these classes
Transport ==
    {"sent", "TelegramBadRequest", "TelegramForbiddenError", "TelegramNetworkError"}

\* send_reminder without its try/except
CaughtNothing(result) == FALSE

\* `except (TelegramBadRequest, TelegramForbiddenError): pass`
Caught(result) == result \in {"TelegramBadRequest", "TelegramForbiddenError"}

\* the ids of the first events of the list whose send_message raised an
\* exception send_reminder caught
Refused(rows, results) ==
    {rows[i].id : i \in {j \in DOMAIN results : results[j] \notin {"sent"}}}

\* bot.send_message returns or raises: send_reminder returns normally when
\* the exception is one it catches, any other leaves send_reminder and
\* dispatch_due; after the last event of the list, mark_reminded is called
SendMessage(p, result) ==
    /\ spc[p] = "send"
    /\ IF ~(result = "sent" \/ Caught(result))
       THEN /\ call' = [call EXCEPT ![p] =
                          [op |-> "send_reminder",
                           telegram_id |-> call[p].batch[call[p].idx].telegram_id,
                           error |-> result]]
            /\ spc' = [spc EXCEPT ![p] = "raised"]
       ELSE IF call[p].idx = Len(call[p].batch)
       THEN /\ call' = [call EXCEPT ![p] =
                          [op |-> "mark_reminded", ids |-> Ids(call[p].batch),
                           refused |-> Refused(call[p].batch,
                                               Append(call[p].results, result))]]
            /\ spc' = [spc EXCEPT ![p] = "wait"]
       ELSE /\ call' = [call EXCEPT ![p].idx = @ + 1,
                                    ![p].results = Append(@, result)]
            /\ spc' = [spc EXCEPT ![p] = "deliver"]
    /\ UNCHANGED <<storeVars, serviceVars, createdBy, ensured, lock, sres>>

\* send_reminder given an event without telegram_id: `return` before
\* get_user and before send_message
SendReminderNoRecipient(p) ==
    /\ spc[p] = "idle"
    /\ call' = [call EXCEPT ![p] =
                  [op |-> "send_reminder", telegram_id |-> NoTelegramId,
                   error |-> "none"]]
    /\ spc' = [spc EXCEPT ![p] = "returned"]
    /\ UNCHANGED <<storeVars, serviceVars, createdBy, ensured, lock, sres>>

\* the statements of p's block raise a storage error: nothing is committed,
\* the connection is closed and the lock released as the exception leaves
\* connect()
StorageError(p) ==
    /\ spc[p] = "in"
    /\ lock' = ReleasedOnError
    /\ call' = [call EXCEPT ![p] = NoCall]
    /\ spc' = [spc EXCEPT ![p] = "failed"]
    /\ UNCHANGED <<storeVars, serviceVars, createdBy, ensured, sres>>

\* task p is cancelled while it waits for the lock or is suspended inside
\* its block: CancelledError leaves connect() as any exception does
CancelledInStore(p) ==
    /\ spc[p] \in {"wait", "in", "ran"}
    /\ lock' = IF lock = p THEN ReleasedOnError ELSE lock
    /\ call' = [call EXCEPT ![p] = NoCall]
    /\ spc' = [spc EXCEPT ![p] = "cancelled"]
    /\ sres' = [sres EXCEPT ![p] = <<>>]
    /\ UNCHANGED <<storeVars, serviceVars, createdBy, ensured>>

\* the storage error or the CancelledError reaches the caller of p
Propagates(p) ==
    /\ spc[p] \in {"failed", "cancelled"}
    /\ spc' = [spc EXCEPT ![p] = "idle"]
    /\ UNCHANGED <<storeVars, serviceVars, createdBy, ensured, lock, call, sres>>

\* ------------------------------------------------------------------ Next
NextOf(maxEvents, maxTasks, numCallers) ==
    \/ Tick
    \/ \E tg \in TelegramIds : EnsureUser(tg)
    \/ \E tg \in TelegramIds, tz \in TimezoneNames \cup {NoTimezone},
          rd \in ReminderDefaults \cup {NoReminderDefault} : UpdateUser(tg, tz, rd)
    \/ \E tg \in TelegramIds, st \in Times, rb \in RemindOptions, aware \in BOOLEAN :
          AddEvent(tg, st, rb, aware, maxEvents)
    \/ \E tg \in TelegramIds, id \in 1..maxEvents : DeleteEvent(tg, id)
    \/ \E t \in Tasks : RunnerEnter(t)
    \/ \E t \in Tasks : SleepElapsed(t)
    \/ \E t \in Tasks : GetDueReminders(t)
    \/ \E t \in Tasks : GetDueRemindersFails(t)
    \/ \E t \in Tasks, ok \in BOOLEAN : Callback(t, ok)
    \/ \E t \in Tasks : MarkRemindedCall(t)
    \/ \E t \in Tasks : MarkRemindedFails(t)
    \/ \E t \in Tasks : Cancelled(t)
    \/ \E c \in 1..numCallers : Start(c, maxTasks)
    \/ \E c \in 1..numCallers : Stop(c)
    \/ \E c \in 1..numCallers : StopResume(c)

Next ==
    NextOf(MaxEvents, SweepTasks, SweepCallers) /\ UNCHANGED <<lockVars, timerVars>>

NextService ==
    NextOf(ServiceEvents, MaxTasks, NumCallers) /\ UNCHANGED <<lockVars, timerVars>>

NextStore ==
    \/ \E p \in Procs, tg \in StoreTelegramIds : CallEnsureUser(p, tg)
    \/ \E p \in Procs, tg \in StoreTelegramIds, st \in Times, off \in UtcOffsets,
          rb \in RemindOptions, aware \in BOOLEAN :
          CallAddEvent(p, tg, st + off * TicksPerMinute, off, rb, aware)
    \/ \E p \in Procs, tg \in StoreTelegramIds, id \in 1..StoreEvents :
          CallGetEvent(p, tg, id)
    \/ \E p \in Procs, tg \in StoreTelegramIds, id \in 1..StoreEvents :
          CallDeleteEvent(p, tg, id)
    \/ \E p \in Procs, now \in Times, aware \in BOOLEAN :
          CallGetDueReminders(p, now, aware)
    \/ \E p \in Procs, ids \in SUBSET (1..StoreEvents) : CallMarkReminded(p, ids)
    \/ \E p \in Procs : Raises(p)
    \/ \E p \in Procs : Acquire(p)
    \/ \E p \in Procs : ExecEnsureUser(p)
    \/ \E p \in Procs : ExecInsertEvent(p)
    \/ \E p \in Procs : ExecGetEvent(p)
    \/ \E p \in Procs : ExecDeleteEvent(p)
    \/ \E p \in Procs : ExecGetDueReminders(p)
    \/ \E p \in Procs : ExecMarkReminded(p)
    \/ \E p \in Procs : Release(p)

NextApi ==
    \/ Tick /\ UNCHANGED <<lockVars, timerVars>>
    \/ \E p \in ApiProcs, tg \in StoreTelegramIds, st \in Times,
          rb \in ApiRemindOptions : CallAddEventApi(p, tg, st, rb)
    \/ \E p \in ApiProcs, tg \in StoreTelegramIds, id \in 1..ApiEvents :
          CallDeleteEvent(p, tg, id)
    \/ \E p \in ApiProcs, ids \in SUBSET (1..ApiEvents) : CallMarkReminded(p, ids)
    \/ \E p \in ApiProcs, tg \in StoreTelegramIds, reminded \in ReminderFilters :
          CallListEvents(p, tg, reminded)
    \/ \E p \in ApiProcs, tg \in StoreTelegramIds : CallGetNextEvent(p, tg)
    \/ \E p \in ApiProcs, tg \in StoreTelegramIds,
          tz \in TimezoneNames \cup {NoTimezone},
          rd \in ReminderDefaults \cup {NoReminderDefault} :
          CallUpdateUser(p, tg, tz, rd)
    \/ \E p \in ApiProcs : Returns(p)
    \/ \E p \in ApiProcs : Acquire(p)
    \/ \E p \in ApiProcs : ExecEnsureUser(p)
    \/ \E p \in ApiProcs : ExecInsertEvent(p)
    \/ \E p \in ApiProcs : ExecDeleteEvent(p)
    \/ \E p \in ApiProcs : ExecMarkReminded(p)
    \/ \E p \in ApiProcs : ExecListEvents(p)
    \/ \E p \in ApiProcs : ExecGetNextEvent(p)
    \/ \E p \in ApiProcs : ExecUpdateUser(p)
    \/ \E p \in ApiProcs : Release(p)

NextSweep ==
    \/ \E p \in Procs, now \in Times : CallDispatchDue(p, now)
    \/ \E p \in Procs, tg \in TelegramIds, st \in Times, rb \in RemindOptions :
          CallAddEvent(p, tg, st, 0, rb, TRUE)
    \/ \E p \in Procs : Acquire(p)
    \/ \E p \in Procs : ExecEnsureUser(p)
    \/ \E p \in Procs : ExecInsertEvent(p)
    \/ \E p \in Procs : ExecSweepFetch(p)
    \/ \E p \in Procs : CallbackGetUser(p)
    \/ \E p \in Procs : ExecGetUser(p)
    \/ \E p \in Procs, result \in Transport : SendMessage(p, result)
    \/ \E p \in Procs : SendReminderNoRecipient(p)
    \/ \E p \in Procs : Returns(p)
    \/ \E p \in Procs : Raises(p)
    \/ \E p \in Procs : ExecMarkReminded(p)
    \/ \E p \in Procs : Release(p)
    \/ \E p \in Procs : StorageError(p)
    \/ \E p \in Procs : CancelledInStore(p)
    \/ \E p \in Procs : Propagates(p)

\* a service that is started once and never stopped, a store that never
\* fails and from which nothing is deleted
NextLive ==
    /\ \/ Tick
       \/ \E tg \in TelegramIds, st \in Times, rb \in RemindOptions :
             AddEvent(tg, st, rb, TRUE, MaxEvents)
       \/ Start(1, 1)
       \/ \E t \in Tasks : RunnerEnter(t)
       \/ \E t \in Tasks : SleepElapsed(t)
       \/ \E t \in Tasks : GetDueReminders(t)
       \/ \E t \in Tasks : Deliver(t)
       \/ \E t \in Tasks : MarkRemindedCall(t)
    /\ UNCHANGED <<lockVars, timerVars>>

\* the clock of the timed runner loop
TimedTick ==
    /\ clock < TimedMaxTime
    /\ clock' = clock + 1
    /\ UNCHANGED <<storeVars, task, nextTask, runnerVars, stopWait, historyVars>>

\* a sleep that is due one interval after the sweep before it began
SleepUntilFromStart(t) == (ended[t] - lasted[t]) + SleepTicks

\* `await asyncio.sleep(self.interval_seconds)`, called when dispatch_due is
\* over: the clock at which the sleep is over
SleepUntil(t) == ended[t] + SleepTicks

\* asyncio.sleep(interval_seconds) is over, not before its time
SleepOver(t) ==
    /\ clock >= SleepUntil(t)
    /\ SleepElapsed(t)

\* what a step does to the times of the sweeps
Timers ==
    /\ began' = [t \in Tasks |->
                   IF pc'[t] = "fetch" /\ pc[t] # "fetch" THEN clock ELSE began[t]]
    /\ ended' = [t \in Tasks |->
                   IF pc'[t] = "sleep" /\ pc[t] # "sleep" THEN clock ELSE ended[t]]
    /\ lasted' = [t \in Tasks |->
                   IF pc'[t] = "sleep" /\ pc[t] # "sleep" THEN clock - began[t]
                   ELSE lasted[t]]

\* the runner loop of a service started once, with its sleeps timed, over a
\* store of one event
NextTimed ==
    /\ \/ TimedTick
       \/ \E tg \in TelegramIds, st \in Times, rb \in RemindOptions :
             AddEvent(tg, st, rb, TRUE, ServiceEvents)
       \/ Start(1, 1)
       \/ \E t \in Tasks : RunnerEnter(t)
       \/ \E t \in Tasks : SleepOver(t)
       \/ \E t \in Tasks : GetDueReminders(t)
       \/ \E t \in Tasks : GetDueRemindersFails(t)
       \/ \E t \in Tasks, ok \in BOOLEAN : Callback(t, ok)
       \/ \E t \in Tasks : MarkRemindedCall(t)
       \/ \E t \in Tasks : MarkRemindedFails(t)
    /\ Timers
    /\ UNCHANGED lockVars

\* the store and the sweeps of one service that is restarted at most once
Spec == Init /\ [][Next]_vars

\* the start()/stop() callers of one service over a store of one event
SpecService == Init /\ [][NextService]_vars

\* the tasks that call the store, through the lock of Database.connect
SpecStore == Init /\ [][NextStore]_vars

\* sweeps and add_event calls through the lock, with storage errors and
\* cancellations
SpecSweep == Init /\ [][NextSweep]_vars

\* the runner loop with the clock of its sleeps
SpecTimed == Init /\ [][NextTimed]_vars

\* one task that calls the writes, the reads and update_user, as time passes
SpecApi == Init /\ [][NextApi]_vars


\* ------------------------------------------------------------------ claims
Alive == {t \in Tasks : status[t] = "alive"}

\* task t is inside dispatch_due
InSweep(t) == status[t] = "alive" /\ pc[t] \in {"fetch", "deliver", "mark"}

\* this step is the normal return of a dispatch_due of t that fetched events
SweepReturns(t) ==
    /\ pc[t] \in {"deliver", "mark"}
    /\ pc'[t] = "sleep"
    /\ outcome'[t] = "returned"

\* this step is get_due_reminders returning a non-empty list to t
Fetches(t) == pc[t] = "fetch" /\ pc'[t] = "deliver"

\* C1: when a dispatch_due() that fetched events returns, every event of its
\* list that is still stored has reminded = true, and no later
\* get_due_reminders returns an event of the list of a sweep that returned.
C1_SweepMarksItsBatch ==
    [][\A t \in Tasks :
         /\ SweepReturns(t) =>
               \A id \in Ids(batch[t]) \cap DOMAIN events' : events'[id].reminded
         /\ Fetches(t) => Ids(batch'[t]) \cap markedIds = {}]_vars

\* a sweep is about to fetch while an event an earlier sweep marked is still
\* stored and its remind_at is not after the sweep's now
C1_Witness ==
    \E t \in Tasks, id \in markedIds \cap DOMAIN events :
        /\ status[t] = "alive"
        /\ pc[t] = "fetch"
        /\ events[id].remind_at <= sweepNow[t]

\* C2: in no step does a stored event go from reminded = true to
\* reminded = false (event ids are never given to a second event).
C2_RemindedNeverReverts ==
    [][\A id \in DOMAIN events \cap DOMAIN events' :
          events[id].reminded => events'[id].reminded]_vars

\* a reminded event is stored next to a later event that is not reminded,
\* after the user's row was updated
C2_Witness ==
    \E id, other \in DOMAIN events, u \in DOMAIN users :
        /\ events[id].reminded
        /\ id < other
        /\ ~events[other].reminded
        /\ users[u].timezone # "UTC"

\* this step is the callback raising out of the dispatch_due of t
CallbackRaises(t) == pc[t] = "deliver" /\ pc'[t] = "sleep"

\* C3: when the callback raises for one event of a sweep, the callback has
\* been or is still invoked for every other event of the sweep's list: the
\* sweep ends only after the last event of the list.
C3_FailureDoesNotAbortSweep ==
    [][\A t \in Tasks : CallbackRaises(t) => idx[t] + 1 = Len(batch[t])]_vars

\* C4: a sweep that fetched events ends only in its mark_reminded call, made
\* with the ids of the whole list, whether or not a callback raised.
C4_MarksAfterAnyDelivery ==
    [][\A t \in Tasks :
          (pc[t] \in {"deliver", "mark"} /\ pc'[t] = "sleep") =>
              /\ pc[t] = "mark"
              /\ idx[t] = Len(batch[t])
              /\ outcome'[t] = "returned" => events' = MarkReminded(Ids(batch[t]))]_vars

\* C5: the callback is invoked at most once for each event.
C5_AtMostOnceDelivery ==
    [][\A t \in Tasks :
          (\E ok \in BOOLEAN : Callback(t, ok)) =>
              batch[t][idx[t] + 1].id \notin delivered]_vars

\* C6: at most one runner task of the service is alive, so at most one sweep
\* is in flight.
C6_OneRunner ==
    /\ Cardinality(Alive) <= 1
    /\ Cardinality({t \in Tasks : InSweep(t)}) <= 1

\* C7: when a stop() that awaited the runner returns, no runner task of the
\* service is alive.
C7_StopLeavesNoRunner ==
    [][\A c \in Callers : StopResume(c) => Alive = {}]_vars

\* C8: a runner task ends only from its sleep (or before its first step),
\* never inside a sweep.
C8_StopLetsSweepFinish ==
    \A t \in Tasks : status[t] = "done" => pc[t] \notin {"deliver", "mark"}

\* this step is an exception leaving the dispatch_due of t
SweepFails(t) ==
    \/ GetDueRemindersFails(t)
    \/ Callback(t, FALSE)
    \/ MarkRemindedFails(t)

\* C9: an exception of a sweep leaves the runner alive and asleep, a runner
\* task ends only when it was cancelled, and a runner asleep after a failed
\* sweep begins another sweep unless it is cancelled.
C9_RunnerSurvivesSweepFailure ==
    /\ [][\A t \in Tasks :
            /\ SweepFails(t) => status'[t] = "alive" /\ pc'[t] = "sleep"
            /\ (status[t] = "alive" /\ status'[t] = "done") => cancelReq[t]]_vars
    /\ \A t \in Tasks :
          (status[t] = "alive" /\ pc[t] = "sleep" /\ outcome[t] = "raised")
             ~> (pc[t] = "fetch" \/ cancelReq[t])

\* a runner is inside the sweep that followed a sweep that raised
C9_Witness ==
    \E t \in Tasks : InSweep(t) /\ outcome[t] = "raised" /\ ~cancelReq[t]

\* C10: start() spawns a runner task exactly when no runner task of the
\* service is alive.
C10_StartSpawnsOnlyWhenIdle ==
    [][\A c \in Callers :
          Start(c, MaxTasks) => (nextTask' # nextTask <=> Alive = {})]_vars

\* asyncio.sleep returns once the interval is over
Fairness == \A t \in Tasks : WF_vars(SleepElapsed(t) /\ UNCHANGED <<lockVars, timerVars>>)

\* Spec with the timer of the event loop running
FairSpec == Spec /\ Fairness

\* a step of the runner loop of t
RunnerStep(t) ==
    \/ RunnerEnter(t)
    \/ SleepElapsed(t)
    \/ GetDueReminders(t)
    \/ Deliver(t)
    \/ MarkRemindedCall(t)

\* the event loop runs the runner task whenever it can take a step: the
\* store answers, the callback terminates, the sleep ends
LiveFairness == \A t \in Tasks : WF_vars(RunnerStep(t) /\ UNCHANGED <<lockVars, timerVars>>)

\* the running loop of a service that is never stopped
LiveSpec == Init /\ [][NextLive]_vars /\ LiveFairness

\* this step is the mark_reminded call of the sweep of t committing
Marks(t) == pc[t] = "mark" /\ pc'[t] = "sleep" /\ outcome'[t] = "returned"

\* C15: when an event of a sweep's list was deleted between the sweep's
\* get_due_reminders and its mark_reminded, the mark_reminded call creates
\* and removes no event, changes no event outside the list, and marks the
\* events of the list that are still stored.
C15_MarkAfterDeleteIsNoOp ==
    [][\A t \in Tasks :
          (Marks(t) /\ ~(Ids(batch[t]) \subseteq DOMAIN events)) =>
              /\ DOMAIN events' = DOMAIN events
              /\ \A id \in DOMAIN events \ Ids(batch[t]) : events'[id] = events[id]
              /\ \A id \in DOMAIN events \cap Ids(batch[t]) :
                    events'[id] = [events[id] EXCEPT !.reminded = TRUE]]_vars

\* a sweep is about to mark a list of which one event was deleted and
\* another is still stored and not marked
C15_Witness ==
    \E t \in Tasks :
        /\ Runs(t)
        /\ pc[t] = "mark"
        /\ \E gone \in Ids(batch[t]) \ DOMAIN events,
              kept \in Ids(batch[t]) \cap DOMAIN events : ~events[kept].reminded

\* C16: an event created with remind_before = 0 is in no list that
\* get_due_reminders returns, so the callback is never invoked for it.
C16_ZeroMeansNoReminder ==
    \A t \in Tasks : \A i \in DOMAIN batch[t] : batch[t][i].remind_before # 0

\* C17: the list a sweep delivers, one callback after the other, is in
\* ascending start_time order.
C17_DeliversInStartTimeOrder ==
    \A t \in Tasks : \A i, j \in DOMAIN batch[t] :
        i < j => batch[t][i].start_time <= batch[t][j].start_time

\* ------------------------------------------------------------------ store claims
\* callers inside a connect block: lock held, connection open
InConnect == {p \in Procs : spc[p] \in {"in", "ran"}}

\* C11: at most one caller is inside a Database.connect() block, and it is
\* the holder of the lock.
C11_MutualExclusion ==
    /\ Cardinality(InConnect) <= 1
    /\ \A p \in InConnect : lock = p

\* a caller has run its statements and not yet closed its connection while
\* another caller waits for the lock
C11_Witness ==
    \E p, q \in Procs : spc[p] = "ran" /\ spc[q] = "wait"

\* C12: while a caller is in add_event after its user was ensured and before
\* its event is inserted, no other caller runs the statements of a store
\* operation.
C12_AddEventIsAtomic ==
    [][\A p, q \in Procs :
          (p # q /\ call[p].op = "add_event.insert" /\ spc[p] = "wait") =>
              ~(spc[q] = "in" /\ spc'[q] = "ran")]_vars

\* C13: no external identifier has two user rows, and every id that
\* ensure_user has returned for an external identifier is the id of the one
\* row stored for it.
C13_OneUserPerTelegramId ==
    /\ \A tg \in StoreTelegramIds : Cardinality(UserIdsOf(tg)) <= 1
    /\ \A e \in ensured : UserIdsOf(e[1]) = {e[2]}

\* an ensure_user has just returned the id that the ensure_user of an
\* add_event in progress returned for the same external identifier
C13_Witness ==
    \E p, q \in Procs :
        /\ spc[p] = "ran"
        /\ call[p].op = "ensure_user"
        /\ call[q].op = "add_event.insert"
        /\ call[q].telegram_id = call[p].telegram_id
        /\ call[q].user_id = sres[p][1]

\* the events that are due at now, by the instants
DueAt(now) ==
    {id \in DOMAIN events : ~events[id].reminded /\ events[id].remind_at <= now}

\* C14: get_due_reminders(now) returns, once each, exactly the stored events
\* of all users with reminded = false and remind_at <= now.
C14_DueSetIsExact ==
    \A p \in Procs :
        (spc[p] = "ran" /\ call[p].op = "get_due_reminders") =>
            /\ Ids(sres[p]) = DueAt(call[p].now)
            /\ Len(sres[p]) = Cardinality(DueAt(call[p].now))

\* get_due_reminders has returned an event with remind_at = now and has left
\* out an unmarked event of another user with remind_at > now
C14_Witness ==
    \E p \in Procs : \E i \in DOMAIN sres[p], id \in DOMAIN events :
        /\ spc[p] = "ran"
        /\ call[p].op = "get_due_reminders"
        /\ sres[p][i].remind_at = call[p].now
        /\ id \notin Ids(sres[p])
        /\ ~events[id].reminded
        /\ events[id].remind_at > call[p].now
        /\ events[id].user_id # sres[p][i].user_id

\* event_id is stored and was created by an add_event of tg
Owns(tg, event_id) == event_id \in DOMAIN events /\ createdBy[event_id] = tg

\* C18: get_event(A, id) returns the stored event id if an add_event of A
\* created it, and absent otherwise.
C18_GetEventIsScoped ==
    \A p \in Procs :
        (spc[p] = "ran" /\ call[p].op = "get_event") =>
            IF Owns(call[p].telegram_id, call[p].event_id)
            THEN /\ Len(sres[p]) = 1
                 /\ sres[p][1].id = call[p].event_id
                 /\ sres[p][1].telegram_id = call[p].telegram_id
                 /\ sres[p][1].start_time = events[call[p].event_id].start_time
            ELSE sres[p] = <<>>

\* get_event has run for a user who has a row and an event another user owns
C18_Witness ==
    \E p \in Procs :
        /\ spc[p] = "ran"
        /\ call[p].op = "get_event"
        /\ UserIdsOf(call[p].telegram_id) # {}
        /\ call[p].event_id \in DOMAIN events
        /\ createdBy[call[p].event_id] # call[p].telegram_id

\* C19: delete_event(A, id) removes event id, and nothing else, if an
\* add_event of A created it; otherwise it changes no event; it changes no
\* user.
C19_DeleteEventIsScoped ==
    [][\A p \in Procs :
          (InBlock(p, "delete_event") /\ spc'[p] = "ran") =>
              /\ users' = users
              /\ events' =
                   IF Owns(call[p].telegram_id, call[p].event_id)
                   THEN [id \in DOMAIN events \ {call[p].event_id} |-> events[id]]
                   ELSE events]_vars

\* delete_event has run for a user who has a row and an event another user
\* owns, and the event is still stored
C19_Witness ==
    \E p \in Procs :
        /\ spc[p] = "ran"
        /\ call[p].op = "delete_event"
        /\ UserIdsOf(call[p].telegram_id) # {}
        /\ call[p].event_id \in DOMAIN events
        /\ createdBy[call[p].event_id] # call[p].telegram_id

\* the call p is in was given a timestamp without timezone information
Naive(c) == c.op \in {"add_event", "get_due_reminders"} /\ ~c.aware

\* C20: an add_event or get_due_reminders that is given a timestamp without
\* timezone information raises at once and returns to its caller without
\* a step that takes the lock or changes the store.
C20_NaiveRejectedBeforeStorage ==
    [][\A p \in Procs :
          /\ (spc[p] = "idle" /\ spc'[p] # "idle" /\ Naive(call'[p])) =>
                (spc'[p] = "raised" /\ UNCHANGED <<lock, storeVars>>)
          /\ (spc[p] = "raised" /\ spc'[p] # "raised") =>
                (spc'[p] = "idle" /\ UNCHANGED <<lock, storeVars>>)]_vars

\* an add_event for an external identifier without a user row and a
\* get_due_reminders have both raised, and no user row and no event exists
C20_Witness ==
    \E p, q \in Procs :
        /\ spc[p] = "raised"
        /\ call[p].op = "add_event"
        /\ spc[q] = "raised"
        /\ call[q].op = "get_due_reminders"
        /\ users = <<>>
        /\ events = <<>>

\* C21: when add_event(X, start_time, remind_before) has inserted its event,
\* the stored event has the UTC instant of the input as start_time, that
\* instant minus remind_before minutes as remind_at, reminded = false and
\* the user row of X as owner, and get_event(X, id) returns these values.
C21_AddEventStoresNormalized ==
    \A p \in Procs :
        (spc[p] = "ran" /\ call[p].op = "add_event.insert") =>
            LET c == call[p]
                id == sres[p][1]
                utc == c.start_time - c.utcoffset * TicksPerMinute
            IN  /\ id \in DOMAIN events
                /\ events[id].start_time = utc
                /\ events[id].remind_at = utc - c.remind_before * TicksPerMinute
                /\ ~events[id].reminded
                /\ UserIdsOf(c.telegram_id) = {events[id].user_id}
                /\ GetEvent(c.telegram_id, id) =
                     <<[id |-> id, user_id |-> events[id].user_id,
                        start_time |-> utc, remind_before |-> c.remind_before,
                        remind_at |-> utc - c.remind_before * TicksPerMinute,
                        reminded |-> FALSE, telegram_id |-> c.telegram_id]>>

\* add_event has inserted an event whose start_time was given east of UTC,
\* with a fraction of a minute and a reminder before the start
C21_Witness ==
    \E p \in Procs :
        /\ spc[p] = "ran"
        /\ call[p].op = "add_event.insert"
        /\ call[p].utcoffset > 0
        /\ call[p].remind_before > 0
        /\ call[p].start_time % TicksPerMinute # 0

\* C22: every stored event has remind_at <= start_time.
C22_RemindAtNotAfterStart ==
    \A id \in DOMAIN events : events[id].remind_at <= events[id].start_time

\* the stored events an add_event of tg created, under the filter reminded
OwnedBy(tg, reminded) ==
    {id \in DOMAIN events :
        /\ createdBy[id] = tg
        /\ reminded # NoFilter => (events[id].reminded <=> reminded = "True")}

\* C23: list_events(X, filter) returns, once each, exactly the stored events
\* that an add_event of X created and that pass the filter, in ascending
\* start_time order.
C23_ListEventsScopedAndSorted ==
    \A p \in Procs :
        (spc[p] = "ran" /\ call[p].op = "list_events") =>
            LET owned == OwnedBy(call[p].telegram_id, call[p].reminded)
            IN  /\ Ids(sres[p]) = owned
                /\ Len(sres[p]) = Cardinality(owned)
                /\ \A i \in DOMAIN sres[p] :
                      /\ sres[p][i].start_time = events[sres[p][i].id].start_time
                      /\ sres[p][i].reminded = events[sres[p][i].id].reminded
                /\ \A i, j \in DOMAIN sres[p] :
                      i < j => sres[p][i].start_time <= sres[p][j].start_time

\* list_events with a filter has returned two events, the one inserted later
\* first because it starts earlier
C23_Witness ==
    \E p \in Procs :
        /\ spc[p] = "ran"
        /\ call[p].op = "list_events"
        /\ call[p].reminded # NoFilter
        /\ Len(sres[p]) = 2
        /\ sres[p][1].id > sres[p][2].id
        /\ sres[p][1].start_time < sres[p][2].start_time

\* the stored events of tg that are not reminded and start at now or later
Upcoming(tg, now) ==
    {id \in OwnedBy(tg, "False") : events[id].start_time >= now}

\* C24: get_next_event(X) returns an event of X that is not reminded, starts
\* at now or later and starts no later than every other such event of X, or
\* absent if X has no such event; list_events(X, reminded=true) returns every
\* stored event of X that has been marked reminded.
C24_NextEventIsEarliestUnreminded ==
    [][\A p \in Procs :
          /\ (InBlock(p, "get_next_event") /\ spc'[p] = "ran") =>
                LET up == Upcoming(call[p].telegram_id, clock)
                IN  IF up = {} THEN sres'[p] = <<>>
                    ELSE /\ Len(sres'[p]) = 1
                         /\ sres'[p][1].id \in up
                         /\ \A id \in up :
                               sres'[p][1].start_time <= events[id].start_time
          /\ (InBlock(p, "list_events") /\ spc'[p] = "ran"
                /\ call[p].reminded = "True") =>
                \A id \in OwnedBy(call[p].telegram_id, NoFilter) :
                    events[id].reminded => id \in Ids(sres'[p])]_vars

\* get_next_event has returned the later of two events of its user that
\* start at now or later, the earlier one having been marked reminded
C24_Witness ==
    \E p \in Procs : \E id \in DOMAIN events :
        /\ spc[p] = "ran"
        /\ call[p].op = "get_next_event"
        /\ Len(sres[p]) = 1
        /\ createdBy[id] = call[p].telegram_id
        /\ events[id].reminded
        /\ events[id].start_time >= clock
        /\ events[id].start_time < sres[p][1].start_time

\* this step is update_user of p running its UPDATE
Updates(p) == InBlock(p, "update_user") /\ spc'[p] = "ran"

\* C25: update_user changes the supplied fields of the user rows of its
\* external identifier and nothing else in the store; called with no field
\* it returns without taking the lock and without a write.
C25_UpdateUserIsPartial ==
    [][\A p \in Procs :
          /\ Updates(p) =>
                /\ UNCHANGED <<events, nextEventId, nextUserId>>
                /\ DOMAIN users' = DOMAIN users
                /\ \A u \in DOMAIN users :
                      /\ users'[u].telegram_id = users[u].telegram_id
                      /\ users'[u].timezone =
                           IF /\ users[u].telegram_id = call[p].telegram_id
                              /\ call[p].timezone_name # NoTimezone
                           THEN call[p].timezone_name ELSE users[u].timezone
                      /\ users'[u].reminder_default =
                           IF /\ users[u].telegram_id = call[p].telegram_id
                              /\ call[p].reminder_default # NoReminderDefault
                           THEN call[p].reminder_default
                           ELSE users[u].reminder_default
          /\ (spc[p] = "idle" /\ spc'[p] # "idle" /\ NoFields(call'[p])) =>
                (spc'[p] = "returned" /\ UNCHANGED <<lock, storeVars>>)
          /\ (spc[p] = "returned" /\ spc'[p] # "returned") =>
                (spc'[p] = "idle" /\ UNCHANGED <<lock, storeVars>>)]_vars

\* update_user has written one field of a user whose other field is not the
\* default, while another user and an event are stored
C25_Witness ==
    \E p \in Procs : \E u, other \in DOMAIN users :
        /\ spc[p] = "ran"
        /\ call[p].op = "update_user"
        /\ call[p].timezone_name = NoTimezone
        /\ users[u].telegram_id = call[p].telegram_id
        /\ users[u].reminder_default = call[p].reminder_default
        /\ users[u].timezone # "UTC"
        /\ other # u
        /\ events # <<>>

\* this step is the UPDATE of a mark_reminded whose list holds id
MarksId(id) ==
    \E p \in Procs :
        InBlock(p, "mark_reminded") /\ spc'[p] = "ran" /\ id \in call[p].ids

\* this step is the DELETE of a delete_event for id by the user who created it
DeletesOwn(id) ==
    \E p \in Procs :
        /\ InBlock(p, "delete_event")
        /\ spc'[p] = "ran"
        /\ call[p].event_id = id
        /\ call[p].telegram_id = createdBy[id]

\* C26: a stored event keeps its user_id, start_time, remind_before and
\* remind_at in every step; its reminded changes only to true and only in a
\* mark_reminded given its id; it leaves the store only in a delete_event
\* for its id by its owner.
C26_EventFieldsAreImmutable ==
    [][\A id \in DOMAIN events :
          IF id \in DOMAIN events'
          THEN /\ events'[id].user_id = events[id].user_id
               /\ events'[id].start_time = events[id].start_time
               /\ events'[id].remind_before = events[id].remind_before
               /\ events'[id].remind_at = events[id].remind_at
               /\ events'[id].reminded # events[id].reminded =>
                     (events'[id].reminded /\ MarksId(id))
          ELSE DeletesOwn(id)]_vars

\* a mark_reminded has marked a stored event with a remind_at other than
\* its start_time, after another event was deleted
C26_Witness ==
    \E p \in Procs : \E id \in DOMAIN events :
        /\ spc[p] = "ran"
        /\ call[p].op = "mark_reminded"
        /\ id \in call[p].ids
        /\ events[id].reminded
        /\ events[id].remind_at # events[id].start_time
        /\ Cardinality(DOMAIN events) + 1 < nextEventId

\* C27: the lock is held only by a caller inside a connect() block: after a
\* caller has returned, raised a storage error or been cancelled the lock is
\* not left with it, and when nobody is inside a block a waiting caller can
\* acquire the lock.
C27_LockReleasedOnEveryExit ==
    /\ lock # NoProc => spc[lock] \in {"in", "ran"}
    /\ \A p \in Procs :
          (spc[p] = "wait" /\ InConnect = {}) => ENABLED Acquire(p)

\* a storage error has left one caller's block and the other caller has
\* acquired the lock after it
C27_Witness ==
    \E p, q \in Procs : spc[p] = "failed" /\ lock = q /\ spc[q] = "in"

\* a step in which some caller goes on with its store operation or its
\* delivery, no error and no cancellation
Proceeds ==
    \E p \in Procs :
        \/ Acquire(p)
        \/ ExecEnsureUser(p)
        \/ ExecInsertEvent(p)
        \/ ExecSweepFetch(p)
        \/ ExecGetUser(p)
        \/ ExecMarkReminded(p)
        \/ Release(p)
        \/ CallbackGetUser(p)
        \/ SendMessage(p, "sent")

\* C28: a caller that awaits the delivery callback, or that waits for the
\* lock, does not hold the lock; and whenever some caller is in the middle of
\* a sweep or of an add_event, some caller can take its next step.
C28_NoLockAcrossCallbacks ==
    /\ \A p \in Procs : spc[p] \in {"deliver", "send", "wait"} => lock # p
    /\ (\E p \in Procs : spc[p] \in {"wait", "in", "ran", "deliver", "send"})
          => ENABLED Proceeds

\* one caller's callback has read its user and awaits bot.send_message while
\* the other caller is inside add_event's second block, after ensure_user
C28_Witness ==
    \E p, q \in Procs :
        /\ spc[p] = "send"
        /\ spc[q] = "in"
        /\ call[q].op = "add_event.insert"

\* the runner loop is running
Running == task # NoTask /\ status[task] = "alive"

\* C29: while the runner loop is running, a stored event that is due and
\* whose own delivery does not fail is eventually marked reminded, even when
\* the delivery of another due event fails on every attempt.
C29_DueEventuallyReminded ==
    \A id \in 1..MaxEvents :
        (Running /\ id \in DueIds(clock) /\ id \notin FailingIds)
            ~> (id \in DOMAIN events /\ events[id].reminded)

\* C30: a runner begins a sweep only from its start or from its sleep, and
\* from its sleep only when a full interval_seconds has passed since its
\* previous sweep ended.
C30_SleepCountedFromSweepEnd ==
    [][\A t \in Tasks :
          (pc'[t] = "fetch" /\ pc[t] # "fetch") =>
              \/ pc[t] = "new"
              \/ pc[t] = "sleep" /\ clock >= ended[t] + SleepTicks]_vars

\* a runner is in the sweep that followed a sweep which took time and ended
\* with an exception _runner caught
C30_Witness ==
    \E t \in Tasks :
        /\ pc[t] = "fetch"
        /\ outcome[t] = "raised"
        /\ lasted[t] >= 1
        /\ began[t] >= ended[t] + SleepTicks

\* this step is a dispatch_due of t returning because nothing was due
ReturnsEmpty(t) == pc[t] = "fetch" /\ pc'[t] = "sleep" /\ outcome'[t] = "returned"

\* C31: the mark_reminded call of a sweep comes after the callback was
\* invoked for every event of the list the sweep fetched, it is given the ids
\* of that list and no other, so it leaves every other stored event (one
\* added or become due after the fetch) as it was; and a sweep that finds
\* nothing due writes nothing.
C31_MarksExactlyWhatItFetched ==
    [][\A t \in Tasks :
          /\ Marks(t) =>
                /\ idx[t] = Len(batch[t])
                /\ Ids(batch[t]) \subseteq delivered
                /\ markedIds' = markedIds \cup Ids(batch[t])
                /\ DOMAIN events' = DOMAIN events
                /\ \A id \in DOMAIN events :
                      IF id \in Ids(batch[t]) THEN events'[id].reminded
                      ELSE events'[id] = events[id]
          /\ ReturnsEmpty(t) => UNCHANGED <<storeVars, markedIds>>]_vars

\* a sweep is about to mark its list while a stored event that is not in
\* the list is due
C31_Witness ==
    \E t \in Tasks :
        /\ Runs(t)
        /\ pc[t] = "mark"
        /\ Ids(batch[t]) \cap DOMAIN events # {}
        /\ DueIds(clock) \ Ids(batch[t]) # {}

\* this step is the callback of the sweep of t being invoked for the next
\* event of its list, returning or raising
Invokes(t) ==
    /\ Runs(t)
    /\ pc[t] = "deliver"
    /\ idx'[t] = idx[t] + 1 \/ pc'[t] = "sleep"

\* C32: the delivery callback is invoked only for an event that is stored
\* at the moment of the invocation.
C32_NoDeliveryForDeletedEvent ==
    [][\A t \in Tasks :
          Invokes(t) => batch[t][idx[t] + 1].id \in DOMAIN events]_vars

\* the ids add_event has returned so far
Returned == DOMAIN createdBy

\* the ids a sweep in progress holds in its list
Fetched == UNION {Ids(batch[t]) : t \in Tasks}

\* C33: the id of an inserted event is greater than every id add_event
\* returned before, also those of deleted events, and it is no id of the list
\* of a sweep in progress; so the mark_reminded of such a sweep marks no
\* event created after its fetch.
C33_EventIdsNeverReused ==
    [][/\ \A id \in DOMAIN events' \ DOMAIN events :
             /\ \A old \in Returned : id > old
             /\ id \notin Fetched
       /\ \A t \in Tasks :
             Marks(t) =>
                 \A id \in DOMAIN events :
                     events'[id] # events[id] => id \in Ids(batch[t])]_vars

\* a sweep is about to mark a list holding the id of an event deleted since
\* the fetch, and an event created after the deletion is stored, not reminded
C33_Witness ==
    \E t \in Tasks :
        /\ Runs(t)
        /\ pc[t] = "mark"
        /\ \E gone \in Ids(batch[t]) \ DOMAIN events :
              \E later \in DOMAIN events \ Ids(batch[t]) :
                  later > gone /\ ~events[later].reminded

\* C34: an update_user for an external identifier that has no user row
\* changes nothing in the store and runs to its end as any other, and every
\* user row that is created has the defaults, timezone "UTC" and
\* reminder_default 15, whatever update_user was given before.
C34_UpdateUserNeverCreates ==
    [][/\ \A p \in Procs :
             (Updates(p) /\ UserIdsOf(call[p].telegram_id) = {}) =>
                 UNCHANGED storeVars
       /\ \A u \in DOMAIN users' \ DOMAIN users :
             /\ users'[u].timezone = "UTC"
             /\ users'[u].reminder_default = 15]_vars

\* update_user has run its UPDATE with a timezone for an external
\* identifier that has no user row, while another user is stored
C34_Witness ==
    \E p \in Procs :
        /\ spc[p] = "ran"
        /\ call[p].op = "update_user"
        /\ call[p].timezone_name # NoTimezone
        /\ UserIdsOf(call[p].telegram_id) = {}
        /\ users # <<>>

\* this step is bot.send_message returning or raising in the callback of p
Sends(p) == spc[p] = "send" /\ spc'[p] # "send"

\* this step is the UPDATE of the mark_reminded of the sweep of p
SweepMarks(p) == InBlock(p, "mark_reminded") /\ spc'[p] = "ran"

\* C35: send_reminder returns without a send for an event without
\* telegram_id; when send_message raises TelegramBadRequest or
\* TelegramForbiddenError the callback returns as after a send, the sweep goes
\* on to its next event or to a mark_reminded that holds the event, which
\* marks it; any other exception of send_message leaves the callback and the
\* sweep.
C35_ExpectedFailuresAreSwallowed ==
    /\ [][\A p \in Procs :
            /\ Sends(p) =>
                  IF spc'[p] = "raised"
                  THEN /\ call'[p].op = "send_reminder"
                       /\ call'[p].error = "TelegramNetworkError"
                  ELSE IF spc'[p] = "wait"
                  THEN /\ call'[p].op = "mark_reminded"
                       /\ call'[p].ids = Ids(call[p].batch)
                       /\ call'[p].refused \subseteq call'[p].ids
                  ELSE /\ spc'[p] = "deliver"
                       /\ call'[p].batch = call[p].batch
                       /\ call'[p].idx = call[p].idx + 1
                       /\ call'[p].results[call[p].idx] # "TelegramNetworkError"
            /\ SweepMarks(p) =>
                  \A id \in call[p].refused \cap DOMAIN events :
                      events'[id].reminded]_vars
    /\ [](\A p \in Procs :
            (call[p].op = "send_reminder" /\ call[p].telegram_id = NoTelegramId)
                => (spc[p] = "returned" /\ lock # p))

\* the mark_reminded of a sweep has marked an event whose send_message
\* raised an exception that send_reminder caught
C35_Witness ==
    \E p \in Procs :
        /\ spc[p] = "ran"
        /\ call[p].op = "mark_reminded"
        /\ \E id \in call[p].refused \cap DOMAIN events : events[id].reminded

====
